---- MODULE Spec2Model ----
(***************************************************************************)
(* Model of the two spike encoders of the EEE8116 bioelectronics demos:    *)
(*   integrate_and_fire  (NeuronInterSpikeCodingDemo.py)                   *)
(*   timeToFirstSpike    (NeuronLatencyCodingDemo.py)                      *)
(*                                                                         *)
(* Each encoder is a function made of two loops: an accumulation loop that *)
(* builds AP_Occurance, and a construction loop that builds ApSig.  One    *)
(* action models one iteration of a loop; pc is the position in the        *)
(* function.  Python indices are 0-based and are kept 0-based in           *)
(* AP_Occurance and in i; a TLA+ sequence s holds Python's s[k] at s[k+1]. *)
(* Floating-point samples are modelled by integers (a fixed-point scale);  *)
(* the k-th sample of the pulse template, which is never 0.0, is modelled  *)
(* by the non-zero number k.                                               *)
(***************************************************************************)
EXTENDS Integers, Sequences, FiniteSets, TLC

\* ---------------------------------------------------------------- bounds
MaxLen       == 5     \* longest information signal
MaxSample    == 2     \* largest sample value
MaxThreshold == 3     \* largest threshold
MaxDuration  == 2     \* longest pulse template
MaxOnset     == 2     \* latest stimulus onset of the latency experiment
MaxBurst     == 3     \* longest burst of the latency experiment
MaxAmp       == 3     \* largest burst amplitude of the latency experiment

Samples    == (0 - 1)..MaxSample
Thresholds == (0 - 1)..MaxThreshold
Durations  == 1..MaxDuration

RECURSIVE SeqsUpTo(_, _)
SeqsUpTo(S, n) ==
  IF n = 0 THEN {<<>>}
  ELSE LET shorter == SeqsUpTo(S, n - 1)
       IN  shorter \cup {Append(s, x) : s \in {t \in shorter : Len(t) = n - 1}, x \in S}

Signals == SeqsUpTo(Samples, MaxLen)

VARIABLES
  encoder,         \* which function runs: "integrate_and_fire" or "timeToFirstSpike"
  informationSig,  \* parameter informationSig
  singlePulse,     \* parameter singlePulse
  AP_Duration,     \* parameter AP_Duration (a local the construction loop may reassign)
  AP_threshold,    \* parameter AP_threshold
  pc,              \* position in the function
  i,               \* loop variable of the running loop
  integralValue,   \* local integralValue
  AP_Occurance,    \* local AP_Occurance
  ApSig,           \* local ApSig; the returned array once pc = "done"
  sigHi, sigLo,    \* latency experiment: the two information signals
  intHi, intLo,    \* latency experiment: the two integrals
  occHi, occLo,    \* latency experiment: the two occurrence lists
  onset            \* latency experiment: index of the first burst sample

vars == <<encoder, informationSig, singlePulse, AP_Duration, AP_threshold, pc, i,
          integralValue, AP_Occurance, ApSig, sigHi, sigLo, intHi, intLo, occHi,
          occLo, onset>>

latencyVars == <<sigHi, sigLo, intHi, intLo, occHi, occLo, onset>>
paramVars   == <<encoder, informationSig, singlePulse, AP_threshold>>

\* ------------------------------------------------------------- helpers
\* np.zeros(n) for n >= 0
Zeros(n) == [k \in 1..n |-> 0]

\* AP_SinglePulse: np.linspace(0, D, D) has D samples, so the template has D
\* samples; sample k is the (non-zero) sum of the two Gaussian lobes.
AP_SinglePulse(D) == [k \in 1..D |-> k]

\* sum of the samples at Python indices lo..hi (0 when the window is empty)
RECURSIVE SumRange(_, _, _)
SumRange(sig, lo, hi) ==
  IF hi < lo THEN 0 ELSE sig[hi + 1] + SumRange(sig, lo, hi - 1)

\* ------------------------------------------- accumulation loop bodies
\* plausible slips of the loop bodies, used to test the properties below
integrate_and_fire_Step_Prepend(sig, thr, idx, integ, occ) ==
  LET v == integ + sig[idx + 1]
  IN  IF v >= thr
      THEN [integralValue |-> 0, AP_Occurance |-> <<idx>> \o occ]
      ELSE [integralValue |-> v, AP_Occurance |-> occ]

integrate_and_fire_Step_NoReset(sig, thr, idx, integ, occ) ==
  LET v == integ + sig[idx + 1]
  IN  IF v >= thr
      THEN [integralValue |-> v, AP_Occurance |-> Append(occ, idx)]
      ELSE [integralValue |-> v, AP_Occurance |-> occ]

integrate_and_fire_Step_Strict(sig, thr, idx, integ, occ) ==
  LET v == integ + sig[idx + 1]
  IN  IF v > thr
      THEN [integralValue |-> 0, AP_Occurance |-> Append(occ, idx)]
      ELSE [integralValue |-> v, AP_Occurance |-> occ]

\* one iteration of the accumulation loop of integrate_and_fire
integrate_and_fire_Step(sig, thr, idx, integ, occ) ==
  LET v == integ + sig[idx + 1]
  IN  IF v >= thr
      THEN [integralValue |-> 0, AP_Occurance |-> Append(occ, idx)]
      ELSE [integralValue |-> v, AP_Occurance |-> occ]

timeToFirstSpike_Step_NoGateReset(sig, thr, idx, integ, occ) ==
  LET v == IF sig[idx + 1] > 0 THEN integ + sig[idx + 1] ELSE integ
  IN  IF v >= thr
      THEN [integralValue |-> 0, AP_Occurance |-> Append(occ, idx)]
      ELSE [integralValue |-> v, AP_Occurance |-> occ]

timeToFirstSpike_Step_Equal(sig, thr, idx, integ, occ) ==
  LET v == IF sig[idx + 1] > 0 THEN integ + sig[idx + 1] ELSE 0
  IN  IF v = thr
      THEN [integralValue |-> 0, AP_Occurance |-> Append(occ, idx)]
      ELSE [integralValue |-> v, AP_Occurance |-> occ]

timeToFirstSpike_Step_Strict(sig, thr, idx, integ, occ) ==
  LET v == IF sig[idx + 1] > 0 THEN integ + sig[idx + 1] ELSE 0
  IN  IF v > thr
      THEN [integralValue |-> 0, AP_Occurance |-> Append(occ, idx)]
      ELSE [integralValue |-> v, AP_Occurance |-> occ]

\* one iteration of the accumulation loop of timeToFirstSpike
timeToFirstSpike_Step(sig, thr, idx, integ, occ) ==
  LET v == IF sig[idx + 1] > 0 THEN integ + sig[idx + 1] ELSE 0
  IN  IF v >= thr
      THEN [integralValue |-> 0, AP_Occurance |-> Append(occ, idx)]
      ELSE [integralValue |-> v, AP_Occurance |-> occ]

\* ------------------------------------------- construction loop bodies
\* One iteration of the construction loop.  t_remaining is computed before the
\* (duration) test; np.zeros raises ValueError on a negative count, which ends
\* the function without a return value (raised = TRUE).
integrate_and_fire_Segment_NoSubtract(occ, k, D, pulse, ap) ==
  LET dT          == occ[k + 2] - occ[k + 1]
      t_remaining == dT
      D2          == IF D < 0 THEN 0 ELSE D
  IN  IF t_remaining < 0
      THEN [raised |-> TRUE,  AP_Duration |-> D2, ApSig |-> ap]
      ELSE [raised |-> FALSE, AP_Duration |-> D2,
            ApSig |-> (ap \o Zeros(t_remaining)) \o pulse]

integrate_and_fire_Segment(occ, k, D, pulse, ap) ==
  LET dT          == occ[k + 2] - occ[k + 1]
      t_remaining == dT - D
      D2          == IF D < 0 THEN 0 ELSE D
  IN  IF t_remaining < 0
      THEN [raised |-> TRUE,  AP_Duration |-> D2, ApSig |-> ap]
      ELSE [raised |-> FALSE, AP_Duration |-> D2,
            ApSig |-> (ap \o Zeros(t_remaining)) \o pulse]

timeToFirstSpike_Segment(occ, k, D, pulse, ap) ==
  LET dT          == occ[k + 2] - occ[k + 1]
      t_remaining == dT - D
      D2          == IF D < 0 THEN 0 ELSE D
  IN  IF t_remaining < 0
      THEN [raised |-> TRUE,  AP_Duration |-> D2, ApSig |-> ap]
      ELSE [raised |-> FALSE, AP_Duration |-> D2,
            ApSig |-> (ap \o Zeros(t_remaining)) \o pulse]

\* the trailing padding of timeToFirstSpike
timeToFirstSpike_Pad_Omitted(sig, ap) == ap

timeToFirstSpike_Pad(sig, ap) ==
  LET lengthDiff == Len(sig) - Len(ap)
  IN  IF lengthDiff > 0 THEN ap \o Zeros(lengthDiff) ELSE ap

\* the first value of ApSig, "a zero action potential signal from which to time
\* subsequent pulses"
integrate_and_fire_InitialApSig_Empty == <<>>

integrate_and_fire_InitialApSig == <<0>>

timeToFirstSpike_InitialApSig == <<0>>

\* ---------------------------------------------------------------- Init
Init ==
  /\ encoder \in {"integrate_and_fire", "timeToFirstSpike"}
  /\ informationSig \in Signals
  /\ AP_threshold \in Thresholds
  /\ AP_Duration \in Durations
  /\ singlePulse = AP_SinglePulse(AP_Duration)
  /\ pc = "accumulate"
  /\ i = 0
  /\ integralValue = 0
  /\ AP_Occurance = <<0>>
  /\ ApSig = <<>>
  /\ sigHi = <<>> /\ sigLo = <<>> /\ intHi = 0 /\ intLo = 0
  /\ occHi = <<0>> /\ occLo = <<0>> /\ onset = 0

\* ------------------------------------------------------------- actions
integrate_and_fire_Accumulate ==
  /\ encoder = "integrate_and_fire"
  /\ pc = "accumulate"
  /\ i < Len(informationSig)
  /\ LET r == integrate_and_fire_Step(informationSig, AP_threshold, i,
                                      integralValue, AP_Occurance)
     IN  /\ integralValue' = r.integralValue
         /\ AP_Occurance' = r.AP_Occurance
  /\ i' = i + 1
  /\ UNCHANGED <<paramVars, AP_Duration, pc, ApSig, latencyVars>>

timeToFirstSpike_Accumulate ==
  /\ encoder = "timeToFirstSpike"
  /\ pc = "accumulate"
  /\ i < Len(informationSig)
  /\ LET r == timeToFirstSpike_Step(informationSig, AP_threshold, i,
                                    integralValue, AP_Occurance)
     IN  /\ integralValue' = r.integralValue
         /\ AP_Occurance' = r.AP_Occurance
  /\ i' = i + 1
  /\ UNCHANGED <<paramVars, AP_Duration, pc, ApSig, latencyVars>>

\* the accumulation loop is over: ApSig = [0] and the construction loop starts
integrate_and_fire_StartConstruction ==
  /\ encoder = "integrate_and_fire"
  /\ pc = "accumulate"
  /\ i = Len(informationSig)
  /\ ApSig' = integrate_and_fire_InitialApSig
  /\ i' = 0
  /\ pc' = "construct"
  /\ UNCHANGED <<paramVars, AP_Duration, integralValue, AP_Occurance, latencyVars>>

timeToFirstSpike_StartConstruction ==
  /\ encoder = "timeToFirstSpike"
  /\ pc = "accumulate"
  /\ i = Len(informationSig)
  /\ ApSig' = timeToFirstSpike_InitialApSig
  /\ i' = 0
  /\ pc' = "construct"
  /\ UNCHANGED <<paramVars, AP_Duration, integralValue, AP_Occurance, latencyVars>>

integrate_and_fire_Construct ==
  /\ encoder = "integrate_and_fire"
  /\ pc = "construct"
  /\ i < Len(AP_Occurance) - 1
  /\ LET r == integrate_and_fire_Segment(AP_Occurance, i, AP_Duration, singlePulse, ApSig)
     IN  /\ ApSig' = r.ApSig
         /\ AP_Duration' = r.AP_Duration
         /\ pc' = IF r.raised THEN "error" ELSE "construct"
         /\ i' = IF r.raised THEN i ELSE i + 1
  /\ UNCHANGED <<paramVars, integralValue, AP_Occurance, latencyVars>>

timeToFirstSpike_Construct ==
  /\ encoder = "timeToFirstSpike"
  /\ pc = "construct"
  /\ i < Len(AP_Occurance) - 1
  /\ LET r == timeToFirstSpike_Segment(AP_Occurance, i, AP_Duration, singlePulse, ApSig)
     IN  /\ ApSig' = r.ApSig
         /\ AP_Duration' = r.AP_Duration
         /\ pc' = IF r.raised THEN "error" ELSE "construct"
         /\ i' = IF r.raised THEN i ELSE i + 1
  /\ UNCHANGED <<paramVars, integralValue, AP_Occurance, latencyVars>>

\* integrate_and_fire returns ApSig as constructed (its padding is disabled)
integrate_and_fire_Return ==
  /\ encoder = "integrate_and_fire"
  /\ pc = "construct"
  /\ i = Len(AP_Occurance) - 1
  /\ pc' = "done"
  /\ UNCHANGED <<paramVars, AP_Duration, i, integralValue, AP_Occurance, ApSig, latencyVars>>

\* timeToFirstSpike pads ApSig to the input length and returns it
timeToFirstSpike_PadAndReturn ==
  /\ encoder = "timeToFirstSpike"
  /\ pc = "construct"
  /\ i = Len(AP_Occurance) - 1
  /\ ApSig' = timeToFirstSpike_Pad(informationSig, ApSig)
  /\ pc' = "done"
  /\ UNCHANGED <<paramVars, AP_Duration, i, integralValue, AP_Occurance, latencyVars>>

Next ==
  \/ integrate_and_fire_Accumulate
  \/ timeToFirstSpike_Accumulate
  \/ integrate_and_fire_StartConstruction
  \/ timeToFirstSpike_StartConstruction
  \/ integrate_and_fire_Construct
  \/ timeToFirstSpike_Construct
  \/ integrate_and_fire_Return
  \/ timeToFirstSpike_PadAndReturn

Spec == Init /\ [][Next]_vars

\* ------------------------------------------------ latency experiment
\* Two runs of timeToFirstSpike side by side, on two signals that are zero up to
\* the same onset and then hold amplitudes aHi >= aLo > 0 for the same burst.
LatencySignal(on, burst, a, tail) == (Zeros(on) \o [k \in 1..burst |-> a]) \o Zeros(tail)

LatencyInit ==
  /\ encoder = "timeToFirstSpike"
  /\ informationSig = <<>>
  /\ AP_threshold \in 1..MaxThreshold
  /\ AP_Duration = 1
  /\ singlePulse = AP_SinglePulse(1)
  /\ pc = "latency"
  /\ i = 0
  /\ integralValue = 0
  /\ AP_Occurance = <<0>>
  /\ ApSig = <<>>
  /\ onset \in 0..MaxOnset
  /\ \E burst \in 1..MaxBurst, aHi \in 1..MaxAmp, aLo \in 1..MaxAmp, tail \in 0..1 :
       /\ aHi >= aLo
       /\ sigHi = LatencySignal(onset, burst, aHi, tail)
       /\ sigLo = LatencySignal(onset, burst, aLo, tail)
  /\ intHi = 0 /\ intLo = 0
  /\ occHi = <<0>> /\ occLo = <<0>>

Latency_Accumulate ==
  /\ pc = "latency"
  /\ i < Len(sigHi)
  /\ LET h == timeToFirstSpike_Step(sigHi, AP_threshold, i, intHi, occHi)
         l == timeToFirstSpike_Step(sigLo, AP_threshold, i, intLo, occLo)
     IN  /\ intHi' = h.integralValue /\ occHi' = h.AP_Occurance
         /\ intLo' = l.integralValue /\ occLo' = l.AP_Occurance
  /\ i' = i + 1
  /\ UNCHANGED <<paramVars, AP_Duration, pc, integralValue, AP_Occurance, ApSig,
                 sigHi, sigLo, onset>>

Latency_Finish ==
  /\ pc = "latency"
  /\ i = Len(sigHi)
  /\ pc' = "latency_done"
  /\ UNCHANGED <<paramVars, AP_Duration, i, integralValue, AP_Occurance, ApSig,
                 latencyVars>>

LatencyNext == Latency_Accumulate \/ Latency_Finish

LatencySpec == LatencyInit /\ [][LatencyNext]_vars

\* ------------------------------------------------------- claim helpers
Last(seq) == seq[Len(seq)]

\* the gap between entry k and entry k+1 of the occurrence list
Gap(occ, k) == occ[k + 1] - occ[k]

AllGapsAtLeast(occ, D) == \A k \in 1..(Len(occ) - 1) : Gap(occ, k) >= D

\* the construction loop has run to its end and nothing has been padded yet
ConstructionFinished == pc = "construct" /\ i = Len(AP_Occurance) - 1

\* the state holding the output as constructed, before any trailing padding
BeforePadding == ConstructionFinished \/ (encoder = "integrate_and_fire" /\ pc = "done")

\* first index of the integration window that ends at the k-th entry (k >= 2)
WindowStart(occ, k) == IF k = 2 THEN 0 ELSE occ[k - 1] + 1

\* ------------------------------------------------------------------ C1
\* C1 as stated: in both encoders AP_Occurance starts with 0 and is strictly
\* increasing, the first recorded index included.
C1_StrictlyIncreasing ==
  /\ AP_Occurance[1] = 0
  /\ \A k \in 1..(Len(AP_Occurance) - 1) : AP_Occurance[k] < AP_Occurance[k + 1]

\* C1 amended: AP_Occurance starts with 0, never decreases, and is strictly
\* increasing from its second entry on; only the first recorded index can equal
\* the initial 0, and it does so exactly when a spike is recorded at index 0.
C1_IncreasingAfterFirst ==
  /\ AP_Occurance[1] = 0
  /\ \A k \in 1..(Len(AP_Occurance) - 1) : AP_Occurance[k] <= AP_Occurance[k + 1]
  /\ \A k \in 2..(Len(AP_Occurance) - 1) : AP_Occurance[k] < AP_Occurance[k + 1]
  /\ \A k \in 2..Len(AP_Occurance) :
       AP_Occurance[k] < (IF pc = "accumulate" THEN i ELSE Len(informationSig))

C1_Witness ==
  /\ pc = "accumulate"
  /\ Len(AP_Occurance) >= 3
  /\ AP_Occurance[2] = 0
  /\ AP_Occurance[3] > 1

\* ------------------------------------------------------------------ C2
\* C2 as stated: in both encoders any two consecutive entries of AP_Occurance
\* differ by at least AP_Duration, so dT - AP_Duration is never negative.
C2_GapsAtLeastDuration ==
  /\ AllGapsAtLeast(AP_Occurance, AP_Duration)
  /\ pc # "error"

\* the samples are small against the threshold
SmallSamples ==
  /\ AP_threshold > 0
  /\ \A k \in 1..Len(informationSig) :
       (AP_Duration + 1) * informationSig[k] <= AP_threshold

\* C2 amended: in both encoders, when the threshold is positive and
\* (AP_Duration + 1) * sample <= threshold for every sample, any two consecutive
\* entries of AP_Occurance differ by at least AP_Duration and dT - AP_Duration
\* is never negative.
C2_GapsAtLeastDurationSmallSamples ==
  SmallSamples => /\ AllGapsAtLeast(AP_Occurance, AP_Duration)
                  /\ pc # "error"

C2_Witness ==
  /\ SmallSamples
  /\ pc = "done"
  /\ Len(AP_Occurance) >= 3

\* ------------------------------------------------------------------ C3
RECURSIVE ClampedOutput(_, _, _, _)
ClampedOutput(occ, n, D, pulse) ==
  IF n = 0 THEN <<0>>
  ELSE LET t == Gap(occ, n) - D
       IN  (ClampedOutput(occ, n - 1, D, pulse) \o Zeros(IF t < 0 THEN 0 ELSE t)) \o pulse

\* C3: construction appends (gap - D) zeros and one template per pair of
\* occurrence indices, a negative count being clamped to zero, and completes
\* without an error.
C3_ClampedConstruction ==
  /\ pc # "error"
  /\ pc = "construct" => ApSig = ClampedOutput(AP_Occurance, i, AP_Duration, singlePulse)

\* ------------------------------------------------------------------ C4
\* C4 as stated: in integrate_and_fire the window of every recorded spike sums to
\* at least the threshold, and the window without its last sample sums to less.
C4_WindowSums ==
  encoder = "integrate_and_fire" =>
    \A k \in 2..Len(AP_Occurance) :
      LET lo == WindowStart(AP_Occurance, k)
          s  == AP_Occurance[k]
      IN  /\ SumRange(informationSig, lo, s) >= AP_threshold
          /\ SumRange(informationSig, lo, s - 1) < AP_threshold

\* C4 amended: in integrate_and_fire the window of every recorded spike sums to
\* at least the threshold, and every shorter non-empty prefix of the window
\* sums to less (the empty prefix sums to 0, which is below the threshold only
\* when the threshold is positive); a spike is recorded at the first index at
\* which the integral since the last reset reaches the threshold, and the
\* integral is then 0.
C4_WindowSumsNonEmpty ==
  encoder = "integrate_and_fire" =>
    /\ \A k \in 2..Len(AP_Occurance) :
         LET lo == WindowStart(AP_Occurance, k)
             s  == AP_Occurance[k]
         IN  /\ SumRange(informationSig, lo, s) >= AP_threshold
             /\ \A j \in lo..(s - 1) : SumRange(informationSig, lo, j) < AP_threshold
             /\ AP_threshold > 0 => SumRange(informationSig, lo, s - 1) < AP_threshold
    /\ pc = "accumulate" =>
         LET lo == WindowStart(AP_Occurance, Len(AP_Occurance) + 1)
         IN  /\ integralValue = SumRange(informationSig, lo, i - 1)
             /\ \A j \in lo..(i - 1) : SumRange(informationSig, lo, j) < AP_threshold

C4_Witness ==
  /\ encoder = "integrate_and_fire"
  /\ pc = "accumulate"
  /\ Len(AP_Occurance) >= 3
  /\ AP_Occurance[3] = i - 1
  /\ AP_Occurance[3] - AP_Occurance[2] >= 2
  /\ SumRange(informationSig, AP_Occurance[2] + 1, AP_Occurance[3]) > AP_threshold

\* ------------------------------------------------------------------ C5
\* an iteration of timeToFirstSpike's accumulation loop on a sample <= 0
NonPositiveStep ==
  /\ encoder = "timeToFirstSpike"
  /\ pc = "accumulate"
  /\ AP_threshold > 0
  /\ i < Len(informationSig)
  /\ informationSig[i + 1] <= 0
  /\ i' = i + 1

\* C5: in timeToFirstSpike with a positive threshold no recorded index holds a
\* sample <= 0; at such an index the integral is reset to zero and the
\* occurrence list is left unchanged.
C5_NoSpikeOnNonPositive ==
  /\ [](encoder = "timeToFirstSpike" /\ AP_threshold > 0 =>
          \A k \in 2..Len(AP_Occurance) : informationSig[AP_Occurance[k] + 1] > 0)
  /\ [][NonPositiveStep => integralValue' = 0 /\ AP_Occurance' = AP_Occurance]_vars

C5_Witness ==
  /\ encoder = "timeToFirstSpike"
  /\ AP_threshold > 0
  /\ pc = "accumulate"
  /\ i >= 3
  /\ informationSig[i] <= 0
  /\ informationSig[i - 1] > 0
  /\ integralValue = 0
  /\ Len(AP_Occurance) >= 2
  /\ Last(AP_Occurance) < i - 2

\* ------------------------------------------------------------------ C6
\* C6: whenever timeToFirstSpike returns, the returned array is at least as long
\* as the information signal.
C6_OutputAtLeastInput ==
  encoder = "timeToFirstSpike" /\ pc = "done" => Len(ApSig) >= Len(informationSig)

C6_Witness ==
  /\ encoder = "timeToFirstSpike"
  /\ pc = "done"
  /\ Len(AP_Occurance) >= 2
  /\ Last(AP_Occurance) + 1 < Len(informationSig)
  /\ Len(ApSig) = Len(informationSig)

\* ------------------------------------------------------------------ C7
\* C7: when integrate_and_fire's constructed output is shorter than the
\* information signal, the returned output has the length of the signal.
C7_PaddedToInput ==
  encoder = "integrate_and_fire" /\ pc = "done" =>
    (Last(AP_Occurance) + 1 < Len(informationSig) => Len(ApSig) = Len(informationSig))

C9_LatencyDecreasesWithAmplitude ==
  pc \in {"latency", "latency_done"} /\ Len(occLo) >= 2 =>
    /\ Len(occHi) >= 2
    /\ occHi[2] <= occLo[2]
    /\ occHi[2] >= onset

C9_Witness ==
  /\ pc = "latency_done"
  /\ Len(occLo) >= 2
  /\ occHi[2] < occLo[2]
  /\ sigHi # sigLo

\* ----------------------------------------------------------------- C10
\* the recorded spike whose template copy covers output index x, or 0
CoveringSpike(occ, D, x) ==
  IF \E k \in 2..Len(occ) : occ[k] - D + 1 <= x /\ x <= occ[k]
  THEN CHOOSE k \in 2..Len(occ) : occ[k] - D + 1 <= x /\ x <= occ[k]
  ELSE 0

\* C10: in both encoders, when every gap of AP_Occurance is at least D, the
\* template copy of the spike at index s occupies output indices s-D+1..s, every
\* other output index is zero, and the output before padding has length
\* (last recorded index) + 1.
C10_SameTimeBase ==
  BeforePadding /\ AllGapsAtLeast(AP_Occurance, AP_Duration) =>
    /\ Len(ApSig) = Last(AP_Occurance) + 1
    /\ \A x \in 0..(Len(ApSig) - 1) :
         LET k == CoveringSpike(AP_Occurance, AP_Duration, x)
         IN  IF k = 0 THEN ApSig[x + 1] = 0
             ELSE ApSig[x + 1] = singlePulse[x - (AP_Occurance[k] - AP_Duration + 1) + 1]

C10_Witness ==
  /\ encoder = "integrate_and_fire"
  /\ pc = "done"
  /\ Len(AP_Occurance) >= 3
  /\ AllGapsAtLeast(AP_Occurance, AP_Duration)
  /\ Len(ApSig) > 2 * AP_Duration + 1

\* ----------------------------------------------------------------- C11
\* the threshold is not positive and no sample is negative
NonPositiveThreshold ==
  /\ pc \in {"accumulate", "construct", "done", "error"}
  /\ AP_threshold <= 0
  /\ \A k \in 1..Len(informationSig) : informationSig[k] >= 0

\* the initial 0 followed by every index 0..n-1 in order
EveryIndex(n) == <<0>> \o [k \in 1..n |-> k - 1]

\* C11: in both encoders, when the threshold is <= 0 and every sample is
\* non-negative, a spike is recorded at every time step: after i iterations the
\* occurrence list is the initial 0 followed by 0..i-1 and the integral is 0,
\* and after the loop it is the initial 0 followed by 0..len(informationSig)-1.
C11_SpikeEveryStep ==
  NonPositiveThreshold =>
    IF pc = "accumulate"
    THEN AP_Occurance = EveryIndex(i) /\ integralValue = 0
    ELSE AP_Occurance = EveryIndex(Len(informationSig))

C11_Witness ==
  /\ NonPositiveThreshold
  /\ pc = "construct"
  /\ i = 0
  /\ Len(informationSig) >= 3
  /\ \E k \in 1..Len(informationSig) : informationSig[k] = 0
  /\ \E k \in 1..Len(informationSig) : informationSig[k] > 0
  /\ Len(AP_Occurance) = Len(informationSig) + 1

====
